---- MODULE Spec2Model ----
(***************************************************************************)
(* zksync_sdk/types/transactions.py: canonical byte encoding, human        *)
(* readable signing message and token helpers of the zkSync transaction    *)
(* variants.                                                               *)
(*                                                                         *)
(* Python integers are unbounded, and the fields reach 2^128, so an        *)
(* integer is modelled as its sequence of decimal digits, most significant *)
(* first, without leading zeros (zero is <<0>>).  A bytes value is a       *)
(* sequence of integers 0..255.  A str is a sequence of text pieces: a     *)
(* literal of an f-string is one piece, a newline is the piece NL, and     *)
(* digits, hex characters and the decimal point are one piece each.        *)
(***************************************************************************)
EXTENDS Integers, Sequences, FiniteSets, TLC

VARIABLES tx, token, tokens, ret

vars == <<tx, token, tokens, ret>>

(***************************************************************************)
(* Bounds of the model.                                                    *)
(***************************************************************************)
MaxTokens == 3
MaxAmount == 120
MaxDecimals == 6

(***************************************************************************)
(* Arbitrary-precision non-negative integers.                              *)
(***************************************************************************)
Zero == <<0>>

Rep(c, n) == [i \in 1..n |-> c]

Min(a, b) == IF a < b THEN a ELSE b

RECURSIVE StripLeadingZeros(_)
StripLeadingZeros(n) ==
    IF Len(n) > 1 /\ n[1] = 0 THEN StripLeadingZeros(Tail(n)) ELSE n

NumLess(a, b) ==
    \/ Len(a) < Len(b)
    \/ /\ Len(a) = Len(b)
       /\ \E i \in 1..Len(a) : a[i] < b[i] /\ \A j \in 1..(i - 1) : a[j] = b[j]

\* long division, one digit of n per step; q holds the quotient's digits so far
RECURSIVE DivAcc(_, _, _, _)
DivAcc(n, d, rem, q) ==
    IF Len(q) = Len(n)
    THEN [q |-> StripLeadingZeros(q), r |-> rem]
    ELSE LET cur == rem * 10 + n[Len(q) + 1]
         IN  DivAcc(n, d, cur % d, Append(q, cur \div d))

\* divmod(n, d) for a small divisor d
DivMod(n, d) == DivAcc(n, d, 0, <<>>)

\* long multiplication, one digit of n per step, from the least significant
RECURSIVE MulAddAcc(_, _, _, _)
MulAddAcc(n, m, carry, acc) ==
    IF Len(acc) >= Len(n)
    THEN IF carry = 0 THEN acc ELSE MulAddAcc(n, m, carry \div 10, <<carry % 10>> \o acc)
    ELSE LET v == n[Len(n) - Len(acc)] * m + carry
         IN  MulAddAcc(n, m, v \div 10, <<v % 10>> \o acc)

\* n * m + a for small m and a
MulAdd(n, m, a) == StripLeadingZeros(MulAddAcc(n, m, a, <<>>))

RECURSIVE TrailingZerosAcc(_, _)
TrailingZerosAcc(n, k) ==
    IF k < Len(n) /\ n[Len(n) - k] = 0 THEN TrailingZerosAcc(n, k + 1) ELSE k

\* number of trailing decimal zeros of a non-zero n
TrailingZeros(n) == TrailingZerosAcc(n, 0)

\* n // 10^k
DropDigits(n, k) == IF k >= Len(n) THEN Zero ELSE SubSeq(n, 1, Len(n) - k)

\* value of a number known to be small
RECURSIVE SmallAcc(_, _, _)
SmallAcc(n, i, acc) == IF i > Len(n) THEN acc ELSE SmallAcc(n, i + 1, acc * 10 + n[i])

Small(n) == SmallAcc(n, 1, 0)

Pow10(k) == <<1>> \o Rep(0, k)

Pow2_32 == <<4, 2, 9, 4, 9, 6, 7, 2, 9, 6>>
Pow2_35 == <<3, 4, 3, 5, 9, 7, 3, 8, 3, 6, 8>>
Pow2_64 == <<1, 8, 4, 4, 6, 7, 4, 4, 0, 7, 3, 7, 0, 9, 5, 5, 1, 6, 1, 6>>
Pow2_128 == <<3, 4, 0, 2, 8, 2, 3, 6, 6, 9, 2, 0, 9, 3, 8, 4, 6, 3, 4, 6,
              3, 3, 7, 4, 6, 0, 7, 4, 3, 1, 7, 6, 8, 2, 1, 1, 4, 5, 6>>

(***************************************************************************)
(* Text.                                                                   *)
(***************************************************************************)
NL == "\n"

DigitChars == <<"0", "1", "2", "3", "4", "5", "6", "7", "8", "9">>

HexLower == <<"0", "1", "2", "3", "4", "5", "6", "7", "8", "9",
              "a", "b", "c", "d", "e", "f">>

HexUpper == <<"0", "1", "2", "3", "4", "5", "6", "7", "8", "9",
              "A", "B", "C", "D", "E", "F">>

\* str(int)
IntStr(n) == [i \in 1..Len(n) |-> DigitChars[n[i] + 1]]

\* str.lower(), on the characters the model's strings are made of
LowerChar(c) ==
    IF \E i \in 11..16 : HexUpper[i] = c
    THEN HexLower[CHOOSE i \in 11..16 : HexUpper[i] = c]
    ELSE IF c = "X" THEN "x" ELSE c

Lower(s) == [i \in 1..Len(s) |-> LowerChar(s[i])]

HexVal(c) ==
    IF \E i \in 1..16 : HexLower[i] = c
    THEN (CHOOSE i \in 1..16 : HexLower[i] = c) - 1
    ELSE IF \E i \in 1..16 : HexUpper[i] = c
         THEN (CHOOSE i \in 1..16 : HexUpper[i] = c) - 1
         ELSE -1

StartsWith(s, p) == Len(s) >= Len(p) /\ SubSeq(s, 1, Len(p)) = p

SyncPrefix == <<"s", "y", "n", "c", ":">>

HexPrefix == <<"0", "x">>

RECURSIVE ReplaceAcc(_, _, _, _)
ReplaceAcc(s, p, i, acc) ==
    IF i > Len(s) THEN acc
    ELSE IF StartsWith(SubSeq(s, i, Len(s)), p)
         THEN ReplaceAcc(s, p, i + Len(p), acc)
         ELSE ReplaceAcc(s, p, i + 1, Append(acc, s[i]))

\* str.replace(p, '')
Remove(s, p) == ReplaceAcc(s, p, 1, <<>>)

(***************************************************************************)
(* Results of a call: the value returned, or an exception.                 *)
(***************************************************************************)
Ok(v) == [ok |-> TRUE, value |-> v]

\* None; an optional value that is present is a one-element sequence
None == <<>>

Err == [ok |-> FALSE, value |-> <<>>]

(***************************************************************************)
(* zksync_sdk.serializers: fixed-width field serializers.  Each returns    *)
(* the field's bytes or raises.                                            *)
(***************************************************************************)
RECURSIVE ToBytesAcc(_, _, _)
ToBytesAcc(n, length, acc) ==
    IF Len(acc) = length
    THEN IF n = Zero THEN Ok(acc) ELSE Err
    ELSE LET dm == DivMod(n, 256)
         IN  ToBytesAcc(dm.q, length, <<dm.r>> \o acc)

\* big-endian, fails if the value does not fit in length bytes
int_to_bytes(value, length) == ToBytesAcc(value, length, <<>>)

serialize_account_id(account_id) == int_to_bytes(account_id, 4)

serialize_token_id(token_id) == int_to_bytes(token_id, 4)

serialize_nonce(nonce) == int_to_bytes(nonce, 4)

serialize_timestamp(timestamp) == int_to_bytes(timestamp, 8)

serialize_ratio_part(part) == int_to_bytes(part, 16)

remove_address_prefix(address) ==
    IF StartsWith(address, HexPrefix) THEN SubSeq(address, 3, Len(address))
    ELSE IF StartsWith(address, SyncPrefix) THEN SubSeq(address, 6, Len(address))
         ELSE address

\* bytes.fromhex: two hex characters per byte
hex_to_bytes(h) ==
    IF Len(h) % 2 = 0 /\ \A i \in 1..Len(h) : HexVal(h[i]) >= 0
    THEN Ok([i \in 1..(Len(h) \div 2) |-> HexVal(h[2 * i - 1]) * 16 + HexVal(h[2 * i])])
    ELSE Err

\* decode hex, left-pad / validate to exactly 20 bytes
serialize_address(address) ==
    LET b == hex_to_bytes(remove_address_prefix(address))
    IN  IF b.ok /\ Len(b.value) <= 20
        THEN Ok(Rep(0, 20 - Len(b.value)) \o b.value)
        ELSE Err

\* decode hex, fail if not exactly 32 bytes
serialize_content_hash(content_hash) ==
    LET b == hex_to_bytes(content_hash)
    IN  IF b.ok /\ Len(b.value) = 32 THEN b ELSE Err

FEE_EXPONENT_MAX == 15
FEE_MANTISSA_MAX == 15
AMOUNT_EXPONENT_MAX == 31

\* the largest exponent e <= cap with 10^e dividing value
PackExponent(value, cap) ==
    IF value = Zero THEN cap ELSE Min(TrailingZeros(value), cap)

PackMantissa(value, cap) ==
    IF value = Zero THEN Zero ELSE DropDigits(value, PackExponent(value, cap))

\* 1 byte: top nibble exponent, bottom nibble mantissa; fails unless
\* value = m * 10^e exactly
packed_fee_checked(fee) ==
    LET e == PackExponent(fee, FEE_EXPONENT_MAX)
        m == PackMantissa(fee, FEE_EXPONENT_MAX)
    IN  IF Len(m) <= 2 /\ Small(m) <= FEE_MANTISSA_MAX
        THEN Ok(<<e * 16 + Small(m)>>)
        ELSE Err

\* 5 bytes: 5 exponent bits and 35 mantissa bits; fails unless
\* value = m * 10^e exactly
packed_amount_checked(amount) ==
    LET e == PackExponent(amount, AMOUNT_EXPONENT_MAX)
        m == PackMantissa(amount, AMOUNT_EXPONENT_MAX)
        b == int_to_bytes(m, 5)
    IN  IF NumLess(m, Pow2_35)
        THEN Ok(<<e * 8 + b.value[1]>> \o Tail(b.value))
        ELSE Err

(***************************************************************************)
(* ZkSyncLibrary.hash_orders: a 32-byte digest of the order bytes.  The    *)
(* primitive is opaque; the model uses a position-weighted sum, which is   *)
(* injective on the order encodings the model builds.                      *)
(***************************************************************************)
RECURSIVE HashRange(_, _, _)
HashRange(b, lo, hi) ==
    IF lo > hi THEN 0
    ELSE IF lo = hi THEN (b[lo] + 1) * lo
         ELSE HashRange(b, lo, (lo + hi) \div 2) + HashRange(b, (lo + hi) \div 2 + 1, hi)

RECURSIVE NumOfAcc(_, _)
NumOfAcc(i, acc) == IF i < 10 THEN <<i>> \o acc ELSE NumOfAcc(i \div 10, <<i % 10>> \o acc)

\* a small integer as a number
NumOf(i) == NumOfAcc(i, <<>>)

hash_orders(order_bytes) == int_to_bytes(NumOf(HashRange(order_bytes, 1, Len(order_bytes))), 32)

\* b"".join([...]): the elements are evaluated first; the first that raises
\* ends the call
RECURSIVE JoinAcc(_, _, _)
JoinAcc(parts, i, acc) ==
    IF i > Len(parts) THEN Ok(acc)
    ELSE IF parts[i].ok THEN JoinAcc(parts, i + 1, acc \o parts[i].value) ELSE Err

Join(parts) == JoinAcc(parts, 1, <<>>)

TRANSACTION_VERSION == 1

(***************************************************************************)
(* class Token.  A Decimal is its coefficient and its scale (the negated   *)
(* exponent); arithmetic rounds to the context precision, half to even.    *)
(***************************************************************************)
DECIMAL_PRECISION == 28

IsOdd(k) == k % 2 = 1

\* does rounding c to its first p digits round up (ROUND_HALF_EVEN)
RoundsUp(c, p) ==
    \/ c[p + 1] > 5
    \/ /\ c[p + 1] = 5
       /\ \/ \E i \in (p + 2)..Len(c) : c[i] # 0
          \/ IsOdd(c[p])

\* Decimal._fix: at most DECIMAL_PRECISION significant digits
Fix(d) ==
    IF Len(d.int) <= DECIMAL_PRECISION THEN d
    ELSE LET p == DECIMAL_PRECISION
             kept == SubSeq(d.int, 1, p)
             r == IF RoundsUp(d.int, p) THEN MulAdd(kept, 1, 1) ELSE kept
             dropped == Len(d.int) - p
         IN  IF Len(r) > p
             THEN [int |-> SubSeq(r, 1, p), scale |-> d.scale - dropped - 1]
             ELSE [int |-> r, scale |-> d.scale - dropped]

\* Decimal(amount).scaleb(-self.decimals)
decimal_amount(t, amount) == Fix([int |-> amount, scale |-> t.decimals])

\* f"{d:.{places}f}"
FormatF(d, places) ==
    LET c == IF d.int = Zero THEN Zero ELSE d.int \o Rep(0, places - d.scale)
        dotplace == Len(c) - places
        intpart == IF dotplace <= 0 THEN <<"0">> ELSE IntStr(SubSeq(c, 1, dotplace))
        fracpart == IF dotplace < 0 THEN Rep("0", -dotplace) \o IntStr(c)
                    ELSE IntStr(SubSeq(c, dotplace + 1, Len(c)))
    IN  IF places = 0 THEN IntStr(c) ELSE intpart \o <<".">> \o fracpart

\* str.rstrip(c): up to the last character that is not c
RStrip(s, c) ==
    LET keep == {i \in 1..Len(s) : s[i] # c}
    IN  IF keep = {} THEN <<>>
        ELSE SubSeq(s, 1, CHOOSE i \in keep : \A j \in keep : j <= i)

decimal_str_amount(t, amount) ==
    LET d == decimal_amount(t, amount)
        d_str == RStrip(FormatF(d, t.decimals), "0")
    IN  IF d_str = <<>> THEN Err
        ELSE IF d_str[Len(d_str)] = "." THEN Ok(d_str \o <<"0">>)
             ELSE IF \A i \in 1..Len(d_str) : d_str[i] # "." THEN Ok(d_str \o <<".", "0">>)
                  ELSE Ok(d_str)

(***************************************************************************)
(* The transaction variants.  A transaction is a record of the dataclass's *)
(* fields plus kind, the class it is an instance of.                       *)
(***************************************************************************)
Lit(s) == Ok(s)

ChangePubKey_tx_type == 7

ChangePubKey_human_readable_message(t) ==
    LET message == <<"Set signing key: ">> \o Lower(Remove(t.new_pk_hash, SyncPrefix))
    IN  IF t.fee # Zero
        THEN Ok(message \o <<NL, "Fee: ">> \o IntStr(t.fee) \o <<" ">> \o t.token.symbol)
        ELSE Ok(message)

ChangePubKey_encoded_message(t) ==
    Join(<<
        int_to_bytes(NumOf(255 - ChangePubKey_tx_type), 1),
        int_to_bytes(NumOf(TRANSACTION_VERSION), 1),
        serialize_account_id(t.account_id),
        serialize_address(t.account),
        serialize_address(t.new_pk_hash),
        serialize_token_id(t.token.id),
        packed_fee_checked(t.fee),
        serialize_nonce(t.nonce),
        serialize_timestamp(t.valid_from),
        serialize_timestamp(t.valid_until)
    >>)

Transfer_tx_type == 5

Transfer_amount_line(t) ==
    IF t.amount # Zero
    THEN Join(<<Lit(<<"Transfer ">>), decimal_str_amount(t.token, t.amount),
                Lit(<<" ">> \o t.token.symbol \o <<" to: ">>), Lit(Lower(t.to_address)), Lit(<<NL>>)>>)
    ELSE Lit(<<>>)

\* the fee line written also for a fee of zero
Transfer_fee_line_always(t) ==
    Join(<<Lit(<<"Fee: ">>), decimal_str_amount(t.token, t.fee),
           Lit(<<" ">> \o t.token.symbol \o <<NL>>)>>)

Transfer_fee_line(t) ==
    IF t.fee # Zero
    THEN Join(<<Lit(<<"Fee: ">>), decimal_str_amount(t.token, t.fee),
                Lit(<<" ">> \o t.token.symbol \o <<NL>>)>>)
    ELSE Lit(<<>>)

Transfer_human_readable_message(t) ==
    Join(<<Transfer_amount_line(t), Transfer_fee_line(t), Lit(<<"Nonce: ">> \o IntStr(t.nonce))>>)

\* the fee written before the amount
Transfer_encoded_message_fee_first(t) ==
    Join(<<
        int_to_bytes(NumOf(255 - Transfer_tx_type), 1),
        int_to_bytes(NumOf(TRANSACTION_VERSION), 1),
        serialize_account_id(t.account_id),
        serialize_address(t.from_address),
        serialize_address(t.to_address),
        serialize_token_id(t.token.id),
        packed_fee_checked(t.fee),
        packed_amount_checked(t.amount),
        serialize_nonce(t.nonce),
        serialize_timestamp(t.valid_from),
        serialize_timestamp(t.valid_until)
    >>)

Transfer_encoded_message(t) ==
    Join(<<
        int_to_bytes(NumOf(255 - Transfer_tx_type), 1),
        int_to_bytes(NumOf(TRANSACTION_VERSION), 1),
        serialize_account_id(t.account_id),
        serialize_address(t.from_address),
        serialize_address(t.to_address),
        serialize_token_id(t.token.id),
        packed_amount_checked(t.amount),
        packed_fee_checked(t.fee),
        serialize_nonce(t.nonce),
        serialize_timestamp(t.valid_from),
        serialize_timestamp(t.valid_until)
    >>)

Withdraw_tx_type == 3

Withdraw_amount_line(t) ==
    IF t.amount # Zero
    THEN Join(<<Lit(<<"Withdraw ">>), decimal_str_amount(t.token, t.amount),
                Lit(<<" ">> \o t.token.symbol \o <<" to: ">>), Lit(Lower(t.to_address)), Lit(<<NL>>)>>)
    ELSE Lit(<<>>)

Withdraw_fee_line(t) ==
    IF t.fee # Zero
    THEN Join(<<Lit(<<"Fee: ">>), decimal_str_amount(t.token, t.fee),
                Lit(<<" ">> \o t.token.symbol \o <<NL>>)>>)
    ELSE Lit(<<>>)

Withdraw_human_readable_message(t) ==
    Join(<<Withdraw_amount_line(t), Withdraw_fee_line(t), Lit(<<"Nonce: ">> \o IntStr(t.nonce))>>)

\* the amount packed as in Transfer
Withdraw_encoded_message_packed(t) ==
    Join(<<
        int_to_bytes(NumOf(255 - Withdraw_tx_type), 1),
        int_to_bytes(NumOf(TRANSACTION_VERSION), 1),
        serialize_account_id(t.account_id),
        serialize_address(t.from_address),
        serialize_address(t.to_address),
        serialize_token_id(t.token.id),
        packed_amount_checked(t.amount),
        packed_fee_checked(t.fee),
        serialize_nonce(t.nonce),
        serialize_timestamp(t.valid_from),
        serialize_timestamp(t.valid_until)
    >>)

Withdraw_encoded_message(t) ==
    Join(<<
        int_to_bytes(NumOf(255 - Withdraw_tx_type), 1),
        int_to_bytes(NumOf(TRANSACTION_VERSION), 1),
        serialize_account_id(t.account_id),
        serialize_address(t.from_address),
        serialize_address(t.to_address),
        serialize_token_id(t.token.id),
        int_to_bytes(t.amount, 16),
        packed_fee_checked(t.fee),
        serialize_nonce(t.nonce),
        serialize_timestamp(t.valid_from),
        serialize_timestamp(t.valid_until)
    >>)

ForcedExit_tx_type == 8

ForcedExit_encoded_message(t) ==
    Join(<<
        int_to_bytes(NumOf(255 - ForcedExit_tx_type), 1),
        int_to_bytes(NumOf(TRANSACTION_VERSION), 1),
        serialize_account_id(t.initiator_account_id),
        serialize_address(t.target),
        serialize_token_id(t.token.id),
        packed_fee_checked(t.fee),
        serialize_nonce(t.nonce),
        serialize_timestamp(t.valid_from),
        serialize_timestamp(t.valid_until)
    >>)

ForcedExit_human_readable_message(t) ==
    Join(<<Lit(<<"ForcedExit ">> \o t.token.symbol \o <<" to: ">>), Lit(Lower(t.target)),
           Lit(<<NL, "Fee: ">>), decimal_str_amount(t.token, t.fee),
           Lit(<<" ">> \o t.token.symbol \o <<NL, "Nonce: ">>), Lit(IntStr(t.nonce))>>)

\* the discriminator of ChangePubKey
Order_msg_type_clash == 255 - ChangePubKey_tx_type

Order_msg_type == 111

Order_encoded_message(t) ==
    Join(<<
        int_to_bytes(NumOf(Order_msg_type), 1),
        int_to_bytes(NumOf(TRANSACTION_VERSION), 1),
        serialize_account_id(t.account_id),
        serialize_address(t.recipient),
        serialize_nonce(t.nonce),
        serialize_token_id(t.token_sell.id),
        serialize_token_id(t.token_buy.id),
        serialize_ratio_part(t.ratio.numerator),
        serialize_ratio_part(t.ratio.denominator),
        packed_amount_checked(t.amount),
        serialize_timestamp(t.valid_from),
        serialize_timestamp(t.valid_until)
    >>)

Order_header(t) ==
    IF t.amount = Zero
    THEN Lit(<<"Limit order for ">> \o t.token_sell.symbol \o <<" -> ">> \o t.token_buy.symbol)
    ELSE Join(<<Lit(<<"Order for ">>), decimal_str_amount(t.token_sell, t.amount),
                Lit(<<" ">> \o t.token_sell.symbol \o <<" -> ">> \o t.token_buy.symbol)>>)

Order_human_readable_message(t) ==
    Join(<<Order_header(t), Lit(<<NL>>),
           Lit(<<"Ratio: ">> \o IntStr(t.ratio.numerator) \o <<":">> \o IntStr(t.ratio.denominator)),
           Lit(<<NL>>),
           Lit(<<"Address: ">> \o Lower(t.recipient)), Lit(<<NL>>),
           Lit(<<"Nonce: ">> \o IntStr(t.nonce))>>)

Swap_tx_type == 11

Swap_human_readable_message(t) ==
    LET message == IF t.fee # Zero
                   THEN Join(<<Lit(<<"Swap fee: ">>), decimal_str_amount(t.fee_token, t.fee),
                               Lit(<<" ">> \o t.fee_token.symbol \o <<NL>>)>>)
                   ELSE Lit(<<>>)
    IN  Join(<<message, Lit(<<"Nonce: ">> \o IntStr(t.nonce))>>)

\* leg 1 before leg 0
Swap_order_bytes_reversed(t) ==
    Join(<<Order_encoded_message(t.orders[2]), Order_encoded_message(t.orders[1])>>)

Swap_order_bytes(t) ==
    Join(<<Order_encoded_message(t.orders[1]), Order_encoded_message(t.orders[2])>>)

\* an order that fails to encode is skipped
Swap_orders_hash_lenient(t) == hash_orders(Swap_order_bytes(t).value)

\* hash_orders is reached only when both orders have encoded
Swap_orders_hash(t) ==
    IF Swap_order_bytes(t).ok THEN hash_orders(Swap_order_bytes(t).value) ELSE Err

Swap_encoded_message(t) ==
    Join(<<
        int_to_bytes(NumOf(255 - Swap_tx_type), 1),
        int_to_bytes(NumOf(TRANSACTION_VERSION), 1),
        serialize_account_id(t.submitter_id),
        serialize_address(t.submitter_address),
        serialize_nonce(t.nonce),
        Swap_orders_hash(t),
        serialize_token_id(t.fee_token.id),
        packed_fee_checked(t.fee),
        packed_amount_checked(t.amounts[1]),
        packed_amount_checked(t.amounts[2])
    >>)

MintNFT_tx_type == 9

MintNFT_encoded_message(t) ==
    Join(<<
        int_to_bytes(NumOf(255 - MintNFT_tx_type), 1),
        int_to_bytes(NumOf(TRANSACTION_VERSION), 1),
        serialize_account_id(t.creator_id),
        serialize_address(t.creator_address),
        serialize_content_hash(t.content_hash),
        serialize_address(t.recipient),
        serialize_token_id(t.fee_token.id),
        packed_fee_checked(t.fee),
        serialize_nonce(t.nonce)
    >>)

MintNFT_human_readable_message(t) ==
    Join(<<Lit(<<"MintNFT ">>), Lit(t.content_hash), Lit(<<" for: ">>), Lit(Lower(t.recipient)),
           Lit(<<NL, "Fee: ">>), decimal_str_amount(t.fee_token, t.fee),
           Lit(<<" ">> \o t.fee_token.symbol \o <<NL, "Nonce: ">>), Lit(IntStr(t.nonce))>>)

WithdrawNFT_tx_type == 10

WithdrawNFT_encoded_message(t) ==
    Join(<<
        int_to_bytes(NumOf(255 - WithdrawNFT_tx_type), 1),
        int_to_bytes(NumOf(TRANSACTION_VERSION), 1),
        serialize_account_id(t.account_id),
        serialize_address(t.from_address),
        serialize_address(t.to_address),
        serialize_token_id(t.token_id),
        serialize_token_id(t.fee_token.id),
        packed_fee_checked(t.fee),
        serialize_nonce(t.nonce),
        serialize_timestamp(t.valid_from),
        serialize_timestamp(t.valid_until)
    >>)

WithdrawNFT_human_readable_message(t) ==
    Join(<<Lit(<<"WithdrawNFT ">>), Lit(IntStr(t.token_id)), Lit(<<" to: ">>), Lit(Lower(t.to_address)),
           Lit(<<NL, "Fee: ">>), decimal_str_amount(t.fee_token, t.fee),
           Lit(<<" ">> \o t.fee_token.symbol \o <<NL, "Nonce: ">>), Lit(IntStr(t.nonce))>>)

tx_type(t) ==
    CASE t.kind = "ChangePubKey" -> ChangePubKey_tx_type
      [] t.kind = "Transfer" -> Transfer_tx_type
      [] t.kind = "Withdraw" -> Withdraw_tx_type
      [] t.kind = "ForcedExit" -> ForcedExit_tx_type
      [] t.kind = "Swap" -> Swap_tx_type
      [] t.kind = "MintNFT" -> MintNFT_tx_type
      [] t.kind = "WithdrawNFT" -> WithdrawNFT_tx_type

\* method dispatch on the class of the object
encoded_message(t) ==
    CASE t.kind = "ChangePubKey" -> ChangePubKey_encoded_message(t)
      [] t.kind = "Transfer" -> Transfer_encoded_message(t)
      [] t.kind = "Withdraw" -> Withdraw_encoded_message(t)
      [] t.kind = "ForcedExit" -> ForcedExit_encoded_message(t)
      [] t.kind = "Order" -> Order_encoded_message(t)
      [] t.kind = "Swap" -> Swap_encoded_message(t)
      [] t.kind = "MintNFT" -> MintNFT_encoded_message(t)
      [] t.kind = "WithdrawNFT" -> WithdrawNFT_encoded_message(t)

human_readable_message(t) ==
    CASE t.kind = "ChangePubKey" -> ChangePubKey_human_readable_message(t)
      [] t.kind = "Transfer" -> Transfer_human_readable_message(t)
      [] t.kind = "Withdraw" -> Withdraw_human_readable_message(t)
      [] t.kind = "ForcedExit" -> ForcedExit_human_readable_message(t)
      [] t.kind = "Order" -> Order_human_readable_message(t)
      [] t.kind = "Swap" -> Swap_human_readable_message(t)
      [] t.kind = "MintNFT" -> MintNFT_human_readable_message(t)
      [] t.kind = "WithdrawNFT" -> WithdrawNFT_human_readable_message(t)

(***************************************************************************)
(* Transport dictionaries.  A dict is the sequence of its <<key, value>>   *)
(* pairs in insertion order; a tuple is a sequence.  A signature object is *)
(* opaque (zksync_sdk.types.signatures): its own dict() keeps what it is.  *)
(***************************************************************************)
\* signature.dict() of a TxSignature or TxEthSignature
Signature_dict(s) == Ok(<<<<"signature", s>>>>)

\* self.signature.dict(): an attribute access on None raises
dict_of_attached(opt) == IF opt = None THEN Err ELSE Signature_dict(opt[1])

\* self.signature.dict() if self.signature else None
dict_if_attached(opt) == IF opt # None THEN Signature_dict(opt[1]) ELSE Ok(None)

\* {key: value, ...}: the values are evaluated in order; the first that
\* raises ends the call
RECURSIVE DictAcc(_, _, _)
DictAcc(entries, i, acc) ==
    IF i > Len(entries) THEN Ok(acc)
    ELSE IF entries[i][2].ok
         THEN DictAcc(entries, i + 1, Append(acc, <<entries[i][1], entries[i][2].value>>))
         ELSE Err

DictOf(entries) == DictAcc(entries, 1, <<>>)

ChangePubKey_dict(t) ==
    DictOf(<<
        <<"type", Lit(<<"ChangePubKey">>)>>,
        <<"accountId", Lit(t.account_id)>>,
        <<"account", Lit(t.account)>>,
        <<"newPkHash", Lit(t.new_pk_hash)>>,
        <<"fee_token", Lit(t.token.id)>>,
        <<"fee", Lit(t.fee)>>,
        <<"nonce", Lit(t.nonce)>>,
        <<"ethAuthData", Lit(t.eth_auth_data)>>,
        <<"signature", dict_of_attached(t.signature)>>,
        <<"validFrom", Lit(t.valid_from)>>,
        <<"validUntil", Lit(t.valid_until)>>
    >>)

\* Transfer.dict with the None-safe signature entry of Swap.dict
Transfer_dict_lenient(t) ==
    DictOf(<<
        <<"type", Lit(<<"Transfer">>)>>,
        <<"accountId", Lit(t.account_id)>>,
        <<"from", Lit(t.from_address)>>,
        <<"to", Lit(t.to_address)>>,
        <<"token", Lit(t.token.id)>>,
        <<"fee", Lit(t.fee)>>,
        <<"nonce", Lit(t.nonce)>>,
        <<"signature", dict_if_attached(t.signature)>>,
        <<"amount", Lit(t.amount)>>,
        <<"validFrom", Lit(t.valid_from)>>,
        <<"validUntil", Lit(t.valid_until)>>
    >>)

Transfer_dict(t) ==
    DictOf(<<
        <<"type", Lit(<<"Transfer">>)>>,
        <<"accountId", Lit(t.account_id)>>,
        <<"from", Lit(t.from_address)>>,
        <<"to", Lit(t.to_address)>>,
        <<"token", Lit(t.token.id)>>,
        <<"fee", Lit(t.fee)>>,
        <<"nonce", Lit(t.nonce)>>,
        <<"signature", dict_of_attached(t.signature)>>,
        <<"amount", Lit(t.amount)>>,
        <<"validFrom", Lit(t.valid_from)>>,
        <<"validUntil", Lit(t.valid_until)>>
    >>)

Withdraw_dict(t) ==
    DictOf(<<
        <<"type", Lit(<<"Withdraw">>)>>,
        <<"accountId", Lit(t.account_id)>>,
        <<"from", Lit(t.from_address)>>,
        <<"to", Lit(t.to_address)>>,
        <<"token", Lit(t.token.id)>>,
        <<"fee", Lit(t.fee)>>,
        <<"nonce", Lit(t.nonce)>>,
        <<"signature", dict_of_attached(t.signature)>>,
        <<"amount", Lit(t.amount)>>,
        <<"validFrom", Lit(t.valid_from)>>,
        <<"validUntil", Lit(t.valid_until)>>
    >>)

ForcedExit_dict(t) ==
    DictOf(<<
        <<"type", Lit(<<"ForcedExit">>)>>,
        <<"initiatorAccountId", Lit(t.initiator_account_id)>>,
        <<"target", Lit(t.target)>>,
        <<"token", Lit(t.token.id)>>,
        <<"fee", Lit(t.fee)>>,
        <<"nonce", Lit(t.nonce)>>,
        <<"signature", dict_of_attached(t.signature)>>,
        <<"validFrom", Lit(t.valid_from)>>,
        <<"validUntil", Lit(t.valid_until)>>
    >>)

Order_dict(t) ==
    DictOf(<<
        <<"accountId", Lit(t.account_id)>>,
        <<"recipient", Lit(t.recipient)>>,
        <<"nonce", Lit(t.nonce)>>,
        <<"tokenSell", Lit(t.token_sell.id)>>,
        <<"tokenBuy", Lit(t.token_buy.id)>>,
        <<"amount", Lit(t.amount)>>,
        <<"ratio", Lit(<<t.ratio.numerator, t.ratio.denominator>>)>>,
        <<"validFrom", Lit(t.valid_from)>>,
        <<"validUntil", Lit(t.valid_until)>>,
        <<"signature", dict_if_attached(t.signature)>>,
        <<"ethSignature", dict_if_attached(t.ethSignature)>>
    >>)

\* (a.dict(), b.dict()): a tuple of two calls
TupleOf(a, b) == IF a.ok /\ b.ok THEN Ok(<<a.value, b.value>>) ELSE Err

Swap_dict(t) ==
    DictOf(<<
        <<"type", Lit(<<"Swap">>)>>,
        <<"submitterId", Lit(t.submitter_id)>>,
        <<"submitterAddress", Lit(t.submitter_address)>>,
        <<"feeToken", Lit(t.fee_token.id)>>,
        <<"fee", Lit(t.fee)>>,
        <<"nonce", Lit(t.nonce)>>,
        <<"signature", dict_if_attached(t.signature)>>,
        <<"amounts", Lit(t.amounts)>>,
        <<"orders", TupleOf(Order_dict(t.orders[1]), Order_dict(t.orders[2]))>>
    >>)

MintNFT_dict(t) ==
    DictOf(<<
        <<"type", Lit(<<"MintNFT">>)>>,
        <<"creatorId", Lit(t.creator_id)>>,
        <<"creatorAddress", Lit(t.creator_address)>>,
        <<"contentHash", Lit(t.content_hash)>>,
        <<"recipient", Lit(t.recipient)>>,
        <<"feeToken", Lit(t.fee_token.id)>>,
        <<"fee", Lit(t.fee)>>,
        <<"nonce", Lit(t.nonce)>>,
        <<"signature", dict_of_attached(t.signature)>>
    >>)

WithdrawNFT_dict(t) ==
    DictOf(<<
        <<"type", Lit(<<"WithdrawNFT">>)>>,
        <<"accountId", Lit(t.account_id)>>,
        <<"from", Lit(t.from_address)>>,
        <<"to", Lit(t.to_address)>>,
        <<"feeToken", Lit(t.fee_token.id)>>,
        <<"fee", Lit(t.fee)>>,
        <<"nonce", Lit(t.nonce)>>,
        <<"validFrom", Lit(t.valid_from)>>,
        <<"validUntil", Lit(t.valid_until)>>,
        <<"token", Lit(t.token_id)>>,
        <<"signature", dict_of_attached(t.signature)>>
    >>)

\* tx.dict(): method dispatch on the class of the object
dict(t) ==
    CASE t.kind = "ChangePubKey" -> ChangePubKey_dict(t)
      [] t.kind = "Transfer" -> Transfer_dict(t)
      [] t.kind = "Withdraw" -> Withdraw_dict(t)
      [] t.kind = "ForcedExit" -> ForcedExit_dict(t)
      [] t.kind = "Order" -> Order_dict(t)
      [] t.kind = "Swap" -> Swap_dict(t)
      [] t.kind = "MintNFT" -> MintNFT_dict(t)
      [] t.kind = "WithdrawNFT" -> WithdrawNFT_dict(t)

\* an envelope is the record of its two fields, tx and signature
TransactionWithSignature_dict(e) ==
    DictOf(<<
        <<"tx", dict(e.tx)>>,
        <<"signature", dict_of_attached(e.signature)>>
    >>)

(***************************************************************************)
(* The values the model draws fields from: for every field a value its     *)
(* serializer accepts and one it rejects.                                  *)
(***************************************************************************)
U32Max == <<4, 2, 9, 4, 9, 6, 7, 2, 9, 5>>

DEFAULT_TOKEN_ADDRESS == HexPrefix \o Rep("0", 40)

MixedAddress == HexPrefix \o <<"A", "b">> \o Rep("0", 36) \o <<"C", "d">>

BadAddress == HexPrefix \o Rep("0", 39) \o <<"g">>

PubKeyHash == SyncPrefix \o <<"F", "e">> \o Rep("1", 38)

ContentHash == Rep("a", 64)

BadContentHash == Rep("a", 62)

Token_eth == [address |-> DEFAULT_TOKEN_ADDRESS, id |-> Zero, symbol |-> <<"ETH">>, decimals |-> 18]

TokenUnits == [address |-> MixedAddress, id |-> NumOf(3), symbol |-> <<"UNIT">>, decimals |-> 0]

TokenBadId == [address |-> MixedAddress, id |-> Pow2_32, symbol |-> <<"USDC">>, decimals |-> 6]

AccountIds == {NumOf(5), Pow2_32}

Senders == {DEFAULT_TOKEN_ADDRESS, BadAddress}

Recipients == {MixedAddress, BadAddress}

PubKeyHashes == {PubKeyHash, BadAddress}

ContentHashes == {ContentHash, BadContentHash}

TokenSet == {Token_eth, TokenUnits, TokenBadId}

Amounts == {Zero, Pow10(18), Pow2_35, Pow2_128}

PackedAmounts == {Zero, Pow10(18), Pow2_35}

Fees == {Zero, NumOf(150), NumOf(1234)}

Nonces == {NumOf(12), Pow2_32}

ValidFroms == {Zero, Pow2_64}

ValidUntils == {U32Max, Pow2_64}

NftIds == {NumOf(70000), Pow2_32}

Ratios == {[numerator |-> NumOf(1), denominator |-> NumOf(2)],
           [numerator |-> Pow2_128, denominator |-> NumOf(1)]}

ChangePubKeys ==
    [kind : {"ChangePubKey"}, account_id : AccountIds, account : Senders,
     new_pk_hash : PubKeyHashes, token : TokenSet, fee : Fees, nonce : Nonces,
     valid_from : ValidFroms, valid_until : ValidUntils,
     eth_auth_data : {None}, eth_signature : {None}, signature : {None}]

Transfers ==
    [kind : {"Transfer"}, account_id : AccountIds, from_address : Senders,
     to_address : Recipients, token : TokenSet, amount : Amounts, fee : Fees,
     nonce : Nonces, valid_from : ValidFroms, valid_until : ValidUntils,
     signature : {None}]

Withdraws ==
    [kind : {"Withdraw"}, account_id : AccountIds, from_address : Senders,
     to_address : Recipients, amount : Amounts, fee : Fees, nonce : Nonces,
     valid_from : ValidFroms, valid_until : ValidUntils, token : TokenSet,
     signature : {None}]

ForcedExits ==
    [kind : {"ForcedExit"}, initiator_account_id : AccountIds, target : Recipients,
     token : TokenSet, fee : Fees, nonce : Nonces,
     valid_from : ValidFroms, valid_until : ValidUntils, signature : {None}]

Orders ==
    [kind : {"Order"}, account_id : AccountIds, recipient : Recipients, nonce : Nonces,
     token_sell : TokenSet, token_buy : {Token_eth, TokenBadId}, amount : PackedAmounts,
     ratio : Ratios, valid_from : ValidFroms, valid_until : ValidUntils,
     signature : {None}, ethSignature : {None}]

\* the orders a Swap is built from
SwapOrders ==
    [kind : {"Order"}, account_id : {NumOf(5)}, recipient : {MixedAddress},
     nonce : {NumOf(12)}, token_sell : {Token_eth, TokenUnits}, token_buy : {Token_eth},
     amount : {Pow10(18)}, ratio : Ratios, valid_from : {Zero}, valid_until : {U32Max},
     signature : {None}, ethSignature : {None}]

Swaps ==
    [kind : {"Swap"}, submitter_id : AccountIds, submitter_address : Recipients,
     amounts : PackedAmounts \X {Pow10(18), Pow2_35}, orders : SwapOrders \X SwapOrders,
     fee_token : {Token_eth, TokenBadId}, fee : Fees, nonce : Nonces, signature : {None}]

MintNFTs ==
    [kind : {"MintNFT"}, creator_id : AccountIds, creator_address : Senders,
     content_hash : ContentHashes, recipient : Recipients, fee : Fees,
     fee_token : TokenSet, nonce : Nonces, signature : {None}]

WithdrawNFTs ==
    [kind : {"WithdrawNFT"}, account_id : AccountIds, from_address : Senders,
     to_address : Recipients, fee_token : TokenSet, fee : Fees, nonce : Nonces,
     valid_from : ValidFroms, valid_until : ValidUntils, token_id : NftIds,
     signature : {None}]

\* account 5, all-zero addresses, ETH, amount 10^18, fee 0, nonce 0
ExampleTransfer ==
    [kind |-> "Transfer", account_id |-> NumOf(5), from_address |-> DEFAULT_TOKEN_ADDRESS,
     to_address |-> DEFAULT_TOKEN_ADDRESS, token |-> Token_eth, amount |-> Pow10(18),
     fee |-> Zero, nonce |-> Zero, valid_from |-> Zero, valid_until |-> U32Max,
     signature |-> None]

Transactions ==
    ChangePubKeys \cup Transfers \cup Withdraws \cup ForcedExits \cup Orders
        \cup Swaps \cup MintNFTs \cup WithdrawNFTs \cup {ExampleTransfer}

NoTx == [kind |-> "None"]

NoRet == [op |-> "none", ok |-> FALSE, value |-> <<>>, arg |-> <<>>]

Call(op, arg, r) == [op |-> op, ok |-> r.ok, value |-> r.value, arg |-> arg]

(***************************************************************************)
(* A transaction, built by its caller, is encoded and rendered.            *)
(***************************************************************************)
Init ==
    /\ tx \in Transactions
    /\ token = Token_eth
    /\ tokens = <<>>
    /\ ret = NoRet

EncodedMessage ==
    /\ tx.kind # "None"
    /\ ret' = Call("encoded_message", <<>>, encoded_message(tx))
    /\ UNCHANGED <<tx, token, tokens>>

HumanReadableMessage ==
    /\ tx.kind # "None"
    /\ ret' = Call("human_readable_message", <<>>, human_readable_message(tx))
    /\ UNCHANGED <<tx, token, tokens>>

Next == EncodedMessage \/ HumanReadableMessage

Spec == Init /\ [][Next]_vars

(***************************************************************************)
(* A transaction is built without a signature; the caller encodes and      *)
(* renders it, attaches the signature it obtained, and asks for the        *)
(* transport dictionary of the transaction or of its envelope.             *)
(***************************************************************************)
\* the signature objects the opaque signer hands out
Signatures == {<<"sig:A">>, <<"sig:B">>}

EthSignatures == {<<"eth:A">>}

\* the transactions of one nonce and, where the variant has one, one
\* validity window; the swaps of one pair of orders
SigTransactions ==
    {t \in Transactions :
        /\ t.nonce = NumOf(12)
        /\ t.kind # "Order" => t.fee # NumOf(1234)
        /\ t.kind \notin {"Swap", "MintNFT"} => t.valid_from = Zero /\ t.valid_until = U32Max
        /\ t.kind = "Swap" =>
            /\ t.orders[1].token_sell = Token_eth
            /\ t.orders[2].token_sell = TokenUnits
            /\ t.orders[1].ratio = t.orders[2].ratio
            /\ t.amounts[2] = Pow10(18)}

InitSig ==
    /\ tx \in SigTransactions
    /\ token = Token_eth
    /\ tokens = <<>>
    /\ ret = NoRet

\* tx.signature = s
AttachSignature ==
    /\ tx.kind # "None"
    /\ \E s \in Signatures :
        /\ tx' = [tx EXCEPT !.signature = <<s>>]
        /\ ret' = Call("attach_signature", s, Ok(None))
    /\ UNCHANGED <<token, tokens>>

Dict ==
    /\ tx.kind # "None"
    /\ ret' = Call("dict", <<>>, dict(tx))
    /\ UNCHANGED <<tx, token, tokens>>

\* TransactionWithSignature(tx, signature).dict()
EnvelopeDict ==
    /\ tx.kind # "None"
    /\ \E s \in {None} \cup {<<e>> : e \in EthSignatures} :
        ret' = Call("envelope_dict", s, TransactionWithSignature_dict([tx |-> tx, signature |-> s]))
    /\ UNCHANGED <<tx, token, tokens>>

NextSig == EncodedMessage \/ HumanReadableMessage \/ AttachSignature \/ Dict \/ EnvelopeDict

SpecSig == InitSig /\ [][NextSig]_vars

(***************************************************************************)
(* Token.decimal_str_amount on a token and an amount.                      *)
(***************************************************************************)
Digits29 == <<1, 2, 3, 4, 5, 6, 7, 8, 9, 0, 1, 2, 3, 4, 5, 6, 7, 8, 9, 0,
              1, 2, 3, 4, 5, 6, 7, 7, 5>>

DecimalsSet == (0..MaxDecimals) \cup {18, 255}

TokensUnderTest ==
    [address : {DEFAULT_TOKEN_ADDRESS}, id : {Zero}, symbol : {<<"ETH">>}, decimals : DecimalsSet]

AmountInputs ==
    {NumOf(i) : i \in 0..MaxAmount} \cup
        {NumOf(1000000), NumOf(1500000), Pow10(18), Pow2_35, Pow2_128, Digits29}

InitToken ==
    /\ tx = NoTx
    /\ token \in TokensUnderTest
    /\ tokens = <<>>
    /\ ret = NoRet

DecimalStrAmount ==
    \E amount \in AmountInputs :
        /\ ret' = Call("decimal_str_amount", amount, decimal_str_amount(token, amount))
        /\ UNCHANGED <<tx, token, tokens>>

NextToken == DecimalStrAmount

SpecToken == InitToken /\ [][NextToken]_vars

(***************************************************************************)
(* class Tokens: lookup in a token list.  A key is an int or a str; the    *)
(* token found is returned as a one-element sequence, None as <<>>.        *)
(***************************************************************************)
find_by_address(ts, address) ==
    LET found_token == SelectSeq(ts, LAMBDA t : t.address = address)
    IN  IF found_token # <<>> THEN <<found_token[1]>> ELSE <<>>

find_by_id(ts, token_id) ==
    LET found_token == SelectSeq(ts, LAMBDA t : t.id = token_id)
    IN  IF found_token # <<>> THEN <<found_token[1]>> ELSE <<>>

find_by_symbol(ts, symbol) ==
    LET found_token == SelectSeq(ts, LAMBDA t : t.symbol = symbol)
    IN  IF found_token # <<>> THEN <<found_token[1]>> ELSE <<>>

\* a string tried as a symbol before it is tried as an address
find_symbol_first(ts, key) ==
    IF key.type = "int"
    THEN find_by_id(ts, key.val)
    ELSE IF find_by_symbol(ts, key.val) = <<>>
         THEN find_by_address(ts, key.val)
         ELSE find_by_symbol(ts, key.val)

find(ts, key) ==
    IF key.type = "int"
    THEN find_by_id(ts, key.val)
    ELSE IF find_by_address(ts, key.val) = <<>>
         THEN find_by_symbol(ts, key.val)
         ELSE find_by_address(ts, key.val)

RegistryTokens ==
    [address : {DEFAULT_TOKEN_ADDRESS, MixedAddress}, id : {Zero, NumOf(1)},
     symbol : {<<"ETH">>, MixedAddress}, decimals : {18}]

Keys ==
    [type : {"int"}, val : {Zero, NumOf(1), NumOf(2)}] \cup
        [type : {"str"}, val : {DEFAULT_TOKEN_ADDRESS, MixedAddress, <<"ETH">>, <<"DAI">>}]

TokenLists == UNION {[1..n -> RegistryTokens] : n \in 0..MaxTokens}

InitTokens ==
    /\ tx = NoTx
    /\ token = Token_eth
    /\ tokens \in TokenLists
    /\ ret = NoRet

Find ==
    \E key \in Keys :
        /\ ret' = Call("find", key, Ok(find(tokens, key)))
        /\ UNCHANGED <<tx, token, tokens>>

NextTokens == Find

SpecTokens == InitTokens /\ [][NextTokens]_vars

(***************************************************************************)
(* The wire format as the protocol states it: per variant the              *)
(* discriminator byte and the fields in order, each with the serializer    *)
(* that fixes its width.                                                   *)
(***************************************************************************)
Kinds == {"ChangePubKey", "Transfer", "Withdraw", "ForcedExit", "Order", "Swap",
          "MintNFT", "WithdrawNFT"}

WireTag(kind) ==
    CASE kind = "Withdraw" -> 3
      [] kind = "Transfer" -> 5
      [] kind = "ChangePubKey" -> 7
      [] kind = "ForcedExit" -> 8
      [] kind = "MintNFT" -> 9
      [] kind = "WithdrawNFT" -> 10
      [] kind = "Swap" -> 11

WireDiscriminator(kind) == IF kind = "Order" THEN 111 ELSE 255 - WireTag(kind)

WireLayout(kind) ==
    CASE kind = "Withdraw" ->
           <<<<"account id", "account_id">>, <<"address", "from_address">>,
             <<"address", "to_address">>, <<"token id", "token.id">>,
             <<"raw amount", "amount">>, <<"packed fee", "fee">>, <<"nonce", "nonce">>,
             <<"timestamp", "valid_from">>, <<"timestamp", "valid_until">>>>
      [] kind = "Transfer" ->
           <<<<"account id", "account_id">>, <<"address", "from_address">>,
             <<"address", "to_address">>, <<"token id", "token.id">>,
             <<"packed amount", "amount">>, <<"packed fee", "fee">>, <<"nonce", "nonce">>,
             <<"timestamp", "valid_from">>, <<"timestamp", "valid_until">>>>
      [] kind = "ChangePubKey" ->
           <<<<"account id", "account_id">>, <<"address", "account">>,
             <<"address", "new_pk_hash">>, <<"token id", "token.id">>,
             <<"packed fee", "fee">>, <<"nonce", "nonce">>,
             <<"timestamp", "valid_from">>, <<"timestamp", "valid_until">>>>
      [] kind = "ForcedExit" ->
           <<<<"account id", "initiator_account_id">>, <<"address", "target">>,
             <<"token id", "token.id">>, <<"packed fee", "fee">>, <<"nonce", "nonce">>,
             <<"timestamp", "valid_from">>, <<"timestamp", "valid_until">>>>
      [] kind = "MintNFT" ->
           <<<<"account id", "creator_id">>, <<"address", "creator_address">>,
             <<"content hash", "content_hash">>, <<"address", "recipient">>,
             <<"token id", "fee_token.id">>, <<"packed fee", "fee">>, <<"nonce", "nonce">>>>
      [] kind = "WithdrawNFT" ->
           <<<<"account id", "account_id">>, <<"address", "from_address">>,
             <<"address", "to_address">>, <<"token id", "token_id">>,
             <<"token id", "fee_token.id">>, <<"packed fee", "fee">>, <<"nonce", "nonce">>,
             <<"timestamp", "valid_from">>, <<"timestamp", "valid_until">>>>
      [] kind = "Swap" ->
           <<<<"account id", "submitter_id">>, <<"address", "submitter_address">>,
             <<"nonce", "nonce">>, <<"order hash", "orders">>,
             <<"token id", "fee_token.id">>, <<"packed fee", "fee">>,
             <<"packed amount", "amounts[0]">>, <<"packed amount", "amounts[1]">>>>
      [] kind = "Order" ->
           <<<<"account id", "account_id">>, <<"address", "recipient">>,
             <<"nonce", "nonce">>, <<"token id", "token_sell.id">>,
             <<"token id", "token_buy.id">>, <<"ratio part", "ratio.numerator">>,
             <<"ratio part", "ratio.denominator">>, <<"packed amount", "amount">>,
             <<"timestamp", "valid_from">>, <<"timestamp", "valid_until">>>>

WireWidth(ser) ==
    CASE ser = "account id" -> 4
      [] ser = "address" -> 20
      [] ser = "token id" -> 4
      [] ser = "nonce" -> 4
      [] ser = "timestamp" -> 8
      [] ser = "content hash" -> 32
      [] ser = "ratio part" -> 16
      [] ser = "packed amount" -> 5
      [] ser = "packed fee" -> 1
      [] ser = "raw amount" -> 16
      [] ser = "order hash" -> 32

FieldOf(t, f) ==
    CASE f = "account_id" -> t.account_id
      [] f = "initiator_account_id" -> t.initiator_account_id
      [] f = "creator_id" -> t.creator_id
      [] f = "submitter_id" -> t.submitter_id
      [] f = "account" -> t.account
      [] f = "new_pk_hash" -> t.new_pk_hash
      [] f = "from_address" -> t.from_address
      [] f = "to_address" -> t.to_address
      [] f = "target" -> t.target
      [] f = "creator_address" -> t.creator_address
      [] f = "submitter_address" -> t.submitter_address
      [] f = "recipient" -> t.recipient
      [] f = "content_hash" -> t.content_hash
      [] f = "token.id" -> t.token.id
      [] f = "fee_token.id" -> t.fee_token.id
      [] f = "token_sell.id" -> t.token_sell.id
      [] f = "token_buy.id" -> t.token_buy.id
      [] f = "token_id" -> t.token_id
      [] f = "amount" -> t.amount
      [] f = "amounts[0]" -> t.amounts[1]
      [] f = "amounts[1]" -> t.amounts[2]
      [] f = "fee" -> t.fee
      [] f = "nonce" -> t.nonce
      [] f = "valid_from" -> t.valid_from
      [] f = "valid_until" -> t.valid_until
      [] f = "ratio.numerator" -> t.ratio.numerator
      [] f = "ratio.denominator" -> t.ratio.denominator
      [] f = "orders" -> t.orders

\* the bytes of one field of the layout
WireField(ser, v) ==
    CASE ser = "account id" -> serialize_account_id(v)
      [] ser = "address" -> serialize_address(v)
      [] ser = "token id" -> serialize_token_id(v)
      [] ser = "nonce" -> serialize_nonce(v)
      [] ser = "timestamp" -> serialize_timestamp(v)
      [] ser = "content hash" -> serialize_content_hash(v)
      [] ser = "ratio part" -> serialize_ratio_part(v)
      [] ser = "packed amount" -> packed_amount_checked(v)
      [] ser = "packed fee" -> packed_fee_checked(v)
      [] ser = "raw amount" -> int_to_bytes(v, 16)
      [] ser = "order hash" ->
           hash_orders(Order_encoded_message(v[1]).value \o Order_encoded_message(v[2]).value)

RECURSIVE WireOffset(_, _)
WireOffset(layout, i) ==
    IF i = 1 THEN 2 ELSE WireOffset(layout, i - 1) + WireWidth(layout[i - 1][1])

WireLength(kind) == WireOffset(WireLayout(kind), Len(WireLayout(kind)) + 1)

\* the payload's slice for field i of the layout
WireSlice(payload, layout, i) ==
    SubSeq(payload, WireOffset(layout, i) + 1, WireOffset(layout, i) + WireWidth(layout[i][1]))

Encoded == ret.op = "encoded_message" /\ ret.ok

\* C1: every payload encoded_message() returns is the discriminator byte, the
\* version byte 0x01 and then the variant's fields in the order of the wire
\* format, each at its fixed width; an encoded Transfer is 76 bytes long and
\* starts with 0xFA, 0x01.
C1_PayloadLayout ==
    Encoded =>
        LET layout == WireLayout(tx.kind)
        IN  /\ Len(ret.value) = WireLength(tx.kind)
            /\ ret.value[1] = WireDiscriminator(tx.kind)
            /\ ret.value[2] = 1
            /\ \A i \in 1..Len(layout) :
                   /\ Len(WireField(layout[i][1], FieldOf(tx, layout[i][2])).value)
                          = WireWidth(layout[i][1])
                   /\ WireSlice(ret.value, layout, i)
                          = WireField(layout[i][1], FieldOf(tx, layout[i][2])).value
            /\ tx.kind = "Transfer" =>
                   Len(ret.value) = 76 /\ ret.value[1] = 250 /\ ret.value[2] = 1

C1_Witness ==
    /\ Encoded
    /\ tx = ExampleTransfer
    /\ Len(ret.value) = 76
    /\ SubSeq(ret.value, 1, 6) = <<250, 1, 0, 0, 0, 5>>

\* C2: the first byte of every payload is 0xFF - tx_type() (tx_type() being
\* 7, 5, 3, 8, 9, 10, 11 for ChangePubKey, Transfer, Withdraw, ForcedExit,
\* MintNFT, WithdrawNFT, Swap), and 111 for an Order; the second byte is the
\* version 0x01; the byte of one variant is the byte of no other.
C2_Discriminator ==
    Encoded =>
        /\ tx.kind # "Order" =>
               /\ tx_type(tx) = WireTag(tx.kind)
               /\ ret.value[1] = 255 - tx_type(tx)
        /\ tx.kind = "Order" => ret.value[1] = 111
        /\ ret.value[2] = 1
        /\ \A k \in Kinds \ {tx.kind} : WireDiscriminator(k) # ret.value[1]

C2_Witness == Encoded /\ tx.kind = "Order" /\ ret.value[1] = 111 /\ ret.value[2] = 1

\* does a field of the layout fail its serializer's precondition
LeafFieldFails(t) ==
    \E i \in 1..Len(WireLayout(t.kind)) :
        /\ WireLayout(t.kind)[i][1] # "order hash"
        /\ ~WireField(WireLayout(t.kind)[i][1], FieldOf(t, WireLayout(t.kind)[i][2])).ok

AnyFieldFails(t) ==
    \/ LeafFieldFails(t)
    \/ t.kind = "Swap" /\ (LeafFieldFails(t.orders[1]) \/ LeafFieldFails(t.orders[2]))

\* C3: when a field of the transaction, or for a Swap a field of one of its
\* two orders, fails its serializer's precondition, encoded_message() ends
\* in an error, returns no bytes, and leaves the transaction as it was.
C3_FailureAtomic ==
    [][(ret'.op = "encoded_message" /\ AnyFieldFails(tx))
           => (~ret'.ok /\ ret'.value = <<>> /\ tx' = tx)]_vars

C3_Witness ==
    /\ ret.op = "encoded_message"
    /\ ~ret.ok
    /\ tx.kind = "Swap"
    /\ ~LeafFieldFails(tx)
    /\ ~LeafFieldFails(tx.orders[1])
    /\ LeafFieldFails(tx.orders[2])

RECURSIVE BytesToNumAcc(_, _, _)
BytesToNumAcc(b, i, acc) ==
    IF i > Len(b) THEN acc
    ELSE IF acc = Zero THEN BytesToNumAcc(b, i + 1, NumOf(b[i]))
         ELSE BytesToNumAcc(b, i + 1, MulAdd(acc, 256, b[i]))

\* the big-endian integer a byte sequence carries
BytesToNum(b) == BytesToNumAcc(b, 1, Zero)

\* amount = m * 10^e for an e of 5 bits and an m of 35 bits
Packable(amount) ==
    \E e \in 0..31 :
        /\ amount = Zero \/ e <= TrailingZeros(amount)
        /\ NumLess(DropDigits(amount, e), Pow2_35)

OtherFieldsValid(t) ==
    \A i \in 1..Len(WireLayout(t.kind)) :
        WireLayout(t.kind)[i][2] # "amount"
            => WireField(WireLayout(t.kind)[i][1], FieldOf(t, WireLayout(t.kind)[i][2])).ok

TransferOf(t) ==
    [kind |-> "Transfer", account_id |-> t.account_id, from_address |-> t.from_address,
     to_address |-> t.to_address, token |-> t.token, amount |-> t.amount, fee |-> t.fee,
     nonce |-> t.nonce, valid_from |-> t.valid_from, valid_until |-> t.valid_until,
     signature |-> t.signature]

UnpackableAmount(t) ==
    /\ t.kind \in {"Withdraw", "Transfer"}
    /\ NumLess(t.amount, Pow2_128)
    /\ ~Packable(t.amount)
    /\ OtherFieldsValid(t)

\* C4: for an amount that fits in 16 bytes and is not m * 10^e within the
\* packed-amount bit budget (the other fields being valid), Withdraw encodes
\* and carries the exact amount as a 16-byte big-endian integer, and Transfer
\* with the same fields fails.
C4_WithdrawRawAmount ==
    (ret.op = "encoded_message" /\ UnpackableAmount(tx)) =>
        /\ tx.kind = "Withdraw" =>
               /\ ret.ok
               /\ Len(ret.value) = 87
               /\ BytesToNum(SubSeq(ret.value, 51, 66)) = tx.amount
               /\ ~Transfer_encoded_message(TransferOf(tx)).ok
        /\ tx.kind = "Transfer" => ~ret.ok /\ ret.value = <<>>

C4_Witness ==
    /\ Encoded
    /\ tx.kind = "Withdraw"
    /\ UnpackableAmount(tx)
    /\ tx.amount = Pow2_35

SwapLegsExchanged(t) == [t EXCEPT !.orders = <<t.orders[2], t.orders[1]>>]

OutsideHash(payload) == SubSeq(payload, 1, 30) \o SubSeq(payload, 63, Len(payload))

\* C5: the hash field of a Swap payload is hash_orders of orders[0]'s
\* encoding followed by orders[1]'s; exchanging two orders that encode
\* differently changes the payload; the payload is 77 bytes whatever the
\* orders are, and outside the hash field it does not depend on them.
C5_SwapOrderHash ==
    (Encoded /\ tx.kind = "Swap") =>
        /\ Len(ret.value) = 77
        /\ SubSeq(ret.value, 31, 62)
               = hash_orders(Order_encoded_message(tx.orders[1]).value
                                 \o Order_encoded_message(tx.orders[2]).value).value
        /\ Order_encoded_message(tx.orders[1]) # Order_encoded_message(tx.orders[2])
               => Swap_encoded_message(SwapLegsExchanged(tx)).value # ret.value
        /\ \A p \in SwapOrders \X SwapOrders :
               LET other == Swap_encoded_message([tx EXCEPT !.orders = p])
               IN  other.ok => Len(other.value) = 77
                                   /\ OutsideHash(other.value) = OutsideHash(ret.value)

C5_Witness ==
    /\ Encoded
    /\ tx.kind = "Swap"
    /\ Order_encoded_message(tx.orders[1]) # Order_encoded_message(tx.orders[2])
    /\ Swap_encoded_message(SwapLegsExchanged(tx)).ok

(***************************************************************************)
(* The lines of a message.                                                 *)
(***************************************************************************)
Rendered == ret.op = "human_readable_message" /\ ret.ok

\* the positions at which a line of the message starts
LineStarts(msg) == {1} \cup {i + 1 : i \in {j \in 1..Len(msg) : msg[j] = NL}}

LastLine(msg) ==
    LET start == CHOOSE i \in LineStarts(msg) : \A j \in LineStarts(msg) : j <= i
    IN  SubSeq(msg, start, Len(msg))

\* the line that starts at position i, without its newline
LineAt(msg, i) ==
    LET ends == {j \in i..Len(msg) : msg[j] = NL}
    IN  IF ends = {} THEN SubSeq(msg, i, Len(msg))
        ELSE SubSeq(msg, i, (CHOOSE j \in ends : \A k \in ends : j <= k) - 1)

\* the positions of the lines that start with the given text
LinesStarting(msg, text) == {i \in LineStarts(msg) : i <= Len(msg) /\ msg[i] = text}

FeeLines(msg) == LinesStarting(msg, "Fee: ") \cup LinesStarting(msg, "Swap fee: ")

AmountLines(msg) == LinesStarting(msg, "Transfer ") \cup LinesStarting(msg, "Withdraw ")

NonceLine(t) == <<"Nonce: ">> \o IntStr(t.nonce)

\* C6: the last line of human_readable_message() is 'Nonce: <n>', for every
\* variant and every field assignment.
C6_ClosesOnNonce ==
    ret.op = "human_readable_message" => ret.ok /\ LastLine(ret.value) = NonceLine(tx)

\* C7: in the message of a variant that carries a fee or an amount, a fee
\* line is present only when the fee is non-zero and an amount line only
\* when the amount is non-zero.
C7_LinesOnlyWhenNonZero ==
    (Rendered /\ tx.kind \in Kinds \ {"Order"}) =>
        /\ FeeLines(ret.value) # {} => tx.fee # Zero
        /\ AmountLines(ret.value) # {} => tx.amount # Zero

\* C8: the message of a Transfer or a Withdraw has the fee line exactly when
\* fee != 0 and the amount line ('Transfer ...' / 'Withdraw ... to: <lower
\* cased to address>') exactly when amount != 0; with both zero it is
\* exactly 'Nonce: <n>'; with both non-zero the lines are amount, fee, nonce.
C8_TransferWithdrawLines ==
    (ret.op = "human_readable_message" /\ tx.kind \in {"Transfer", "Withdraw"}) =>
        LET msg == ret.value
            verb == IF tx.kind = "Transfer" THEN "Transfer " ELSE "Withdraw "
            to == <<" to: ">> \o Lower(tx.to_address)
        IN  /\ ret.ok
            /\ FeeLines(msg) # {} <=> tx.fee # Zero
            /\ AmountLines(msg) # {} <=> tx.amount # Zero
            /\ AmountLines(msg) = LinesStarting(msg, verb)
            /\ \A i \in AmountLines(msg) :
                   /\ Len(LineAt(msg, i)) > Len(to)
                   /\ SubSeq(LineAt(msg, i), Len(LineAt(msg, i)) - Len(to) + 1,
                             Len(LineAt(msg, i))) = to
            /\ LastLine(msg) = NonceLine(tx)
            /\ (tx.amount = Zero /\ tx.fee = Zero) => msg = NonceLine(tx)
            /\ (tx.amount # Zero /\ tx.fee # Zero) =>
                   /\ Cardinality(LineStarts(msg)) = 3
                   /\ AmountLines(msg) = {1}
                   /\ \E f \in FeeLines(msg) :
                          /\ FeeLines(msg) = {f}
                          /\ LineStarts(msg) = {1, f, Len(msg) - Len(NonceLine(tx)) + 1}
                          /\ 1 < f
                          /\ f < Len(msg) - Len(NonceLine(tx)) + 1

C8_Witness ==
    /\ Rendered
    /\ tx.kind = "Withdraw"
    /\ tx.amount # Zero
    /\ tx.fee # Zero
    /\ tx.to_address = MixedAddress
    /\ Cardinality(LineStarts(ret.value)) = 3

\* the decimal expansion of amount / 10^decimals: the integer part, a point,
\* and the fraction without its trailing zeros, of one digit at least
ExactDecimal(amount, decimals) ==
    LET padded == Rep(0, decimals + 1 - Len(amount)) \o amount
        intpart == SubSeq(padded, 1, Len(padded) - decimals)
        frac == SubSeq(padded, Len(padded) - decimals + 1, Len(padded))
        nonzero == {i \in 1..Len(frac) : frac[i] # 0}
        kept == IF nonzero = {} THEN <<0>>
                ELSE SubSeq(frac, 1, CHOOSE i \in nonzero : \A j \in nonzero : j <= i)
    IN  IntStr(intpart) \o <<".">> \o IntStr(kept)

\* C9: for a token with decimals in 0..255 and a non-negative amount,
\* decimal_str_amount(amount) returns, without error, the exact decimal
\* expansion of amount / 10^decimals.
C9_ExactDecimalString ==
    ret.op = "decimal_str_amount" =>
        ret.ok /\ ret.value = ExactDecimal(ret.arg, token.decimals)

\* the first token of the list that satisfies P, as find returns it
FirstWhere(ts, P(_)) ==
    LET hits == {i \in 1..Len(ts) : P(ts[i])}
    IN  IF hits = {} THEN <<>>
        ELSE <<ts[CHOOSE i \in hits : \A j \in hits : i <= j]>>

ExpectedFind(ts, key) ==
    IF key.type = "int"
    THEN FirstWhere(ts, LAMBDA t : t.id = key.val)
    ELSE IF \E i \in 1..Len(ts) : ts[i].address = key.val
         THEN FirstWhere(ts, LAMBDA t : t.address = key.val)
         ELSE FirstWhere(ts, LAMBDA t : t.symbol = key.val)

\* C10: find(key) returns the first token whose id equals an integer key;
\* for a string key the first token whose address equals it and, only if no
\* address matches, the first whose symbol equals it; None when nothing
\* matches, without raising; the token list is left unchanged.
C10_Find ==
    [][ret'.op = "find" =>
           /\ ret'.ok
           /\ ret'.value = ExpectedFind(tokens, ret'.arg)
           /\ tokens' = tokens]_vars

C10_Witness ==
    /\ ret.op = "find"
    /\ ret.arg = [type |-> "str", val |-> MixedAddress]
    /\ Len(tokens) = 2
    /\ tokens[1].symbol = MixedAddress
    /\ tokens[1].address # MixedAddress
    /\ tokens[2].address = MixedAddress
    /\ ret.value = <<tokens[2]>>

(***************************************************************************)
(* C11                                                                     *)
(***************************************************************************)
\* the variants whose dict() renders the signature unconditionally
SignedKinds == {"Transfer", "Withdraw", "ChangePubKey", "ForcedExit", "MintNFT", "WithdrawNFT"}

\* the value a dictionary holds under a key
Get(d, key) == d[CHOOSE i \in 1..Len(d) : d[i][1] = key][2]

\* the transaction as it was built, before any signature was attached
Unsigned(t) == [t EXCEPT !.signature = None]

\* the signature changes only in an attach step, and the step changes
\* nothing else of the transaction
C11_AttachOnly ==
    /\ tx'.signature # tx.signature => ret'.op = "attach_signature"
    /\ ret'.op = "attach_signature" => tx'.signature # None /\ Unsigned(tx') = Unsigned(tx)

\* dict() of a signed kind: a dictionary exactly when the signature is
\* there, holding that signature's rendering; otherwise an error and nothing
C11_SignedDict ==
    (ret'.op = "dict" /\ tx'.kind \in SignedKinds) =>
        /\ ret'.ok <=> tx'.signature # None
        /\ ~ret'.ok => ret'.value = None
        /\ ret'.ok =>
            /\ Get(ret'.value, "signature") = Signature_dict(tx'.signature[1]).value
            /\ Get(ret'.value, "type") = <<tx'.kind>>

\* the envelope of a signed kind: no dictionary without the transaction's
\* own signature, and with it the transaction's dictionary under "tx"
C11_Envelope ==
    (ret'.op = "envelope_dict" /\ tx'.kind \in SignedKinds) =>
        /\ ret'.ok => tx'.signature # None /\ Get(ret'.value, "tx") = dict(tx').value
        /\ tx'.signature = None => ~ret'.ok /\ ret'.value = None
        /\ ret'.ok <=> (tx'.signature # None /\ ret'.arg # None)

\* Swap.dict() and Order.dict() never fail; None stands under "signature"
\* while none is attached
C11_OptionalDict ==
    (ret'.op = "dict" /\ tx'.kind \in {"Swap", "Order"}) =>
        /\ ret'.ok
        /\ tx'.signature = None => Get(ret'.value, "signature") = None
        /\ tx'.signature # None =>
            Get(ret'.value, "signature") = Signature_dict(tx'.signature[1]).value

\* encoding and rendering give what the unsigned transaction gives
C11_MessagesUnaffected ==
    /\ ret'.op = "encoded_message" =>
        ret' = Call("encoded_message", <<>>, encoded_message(Unsigned(tx')))
    /\ ret'.op = "human_readable_message" =>
        ret' = Call("human_readable_message", <<>>, human_readable_message(Unsigned(tx')))
    /\ ret'.op = "attach_signature" =>
        /\ encoded_message(tx') = encoded_message(tx)
        /\ human_readable_message(tx') = human_readable_message(tx)

\* C11: over any sequence of attach, dict, encode and render calls on one
\* transaction built without a signature, dict() of a Transfer, Withdraw,
\* ChangePubKey, ForcedExit, MintNFT or WithdrawNFT, and the dict() of the
\* envelope around it, returns a dictionary only when the signature was
\* attached in an earlier step and otherwise raises and returns nothing;
\* dict() of a Swap or an Order always returns a dictionary, with None under
\* "signature" while none is attached; encoded_message() and
\* human_readable_message() return the same before and after the attachment.
C11_SignatureBeforeDict ==
    [][/\ C11_AttachOnly
       /\ C11_SignedDict
       /\ C11_Envelope
       /\ C11_OptionalDict
       /\ C11_MessagesUnaffected]_vars

\* a Transfer that encodes and renders was signed and its dictionary taken
C11_Witness ==
    /\ tx.kind = "Transfer"
    /\ tx.signature # None
    /\ ret.op = "dict"
    /\ ret.ok
    /\ Get(ret.value, "signature") = Signature_dict(tx.signature[1]).value
    /\ encoded_message(tx).ok
    /\ human_readable_message(tx).ok

====
